---- MODULE Spec2Model ----
(***************************************************************************)
(* Model of the Anchor program conditional_transfer                        *)
(* (programs/conditional_transfer/src/lib.rs).                             *)
(*                                                                         *)
(* State: the Config account stored at the program derived address, and    *)
(* the lamport balance of every account.  One action per instruction; an   *)
(* action covers the whole instruction: Anchor's account validation (the   *)
(* #[derive(Accounts)] struct), the handler body and the CPI it makes.     *)
(* A failing instruction is rolled back by the runtime, so it changes      *)
(* nothing but the outcome recorded in `last`.                             *)
(***************************************************************************)
EXTENDS Integers, FiniteSets, Sequences, TLC

(* ---------------------------- bounds ---------------------------------- *)

\* Largest lamport amount / threshold passed as an instruction argument.
MaxLamports == 2

(* --------------------------- identities ------------------------------- *)

\* Wallets: keys somebody holds the private key of, so they can sign.
Users == {"A", "B", "C"}

\* Pubkey::default(), the all-zero key.  It is the address of the System
\* Program itself: an account nobody can sign for and that the System
\* Program does not own.
DefaultPubkey == "zero"

\* The address derived from seeds = [CONFIG_SEED] and the canonical bump.
ConfigPda == "config"

\* The canonical bump found for seeds = [CONFIG_SEED].
CanonicalBump == 255

\* Rent-exempt minimum of the 8+32+32+32+8+1 byte Config account, in units
\* of the model.
RentLamports == 1

Pubkey == Users \cup {DefaultPubkey}

Accounts == Pubkey \cup {ConfigPda}

U64 == 0..MaxLamports

NoConfig == [exists |-> FALSE]

Config == [exists : {TRUE}, authority : Pubkey, from : Pubkey, to : Pubkey,
           threshold_lamports : U64, bump : {CanonicalBump}]

\* Outcomes of an instruction: Ok, the program's own errors
\* (ConditionalError), Anchor's account-validation errors and the System
\* Program's errors that a failing CPI propagates.
ConditionalError == {"BelowThreshold", "Unauthorized"}

AnchorError == {"AccountNotInitialized", "AccountNotSigner",
                "AccountNotSystemOwned", "ConstraintAddress",
                "ConstraintHasOne"}

SystemError == {"AccountAlreadyInUse", "ResultWithNegativeLamports"}

Instructions == {"initialize", "send_if_over_threshold",
                 "update_threshold", "update_addresses"}

VARIABLES cfg, lamports, last, inflight

vars == <<cfg, lamports, last, inflight>>

\* What the runtime reports for the latest instruction: the instruction, its
\* result, the account Anchor names as the origin of a validation error, and
\* the amount a transfer request asked for (0 for the other instructions).
NoCall == [ix |-> "none", result |-> "none", origin |-> "none", amount |-> 0]

Outcome(ix, result, origin, amount) ==
    [ix |-> ix, result |-> result, origin |-> origin, amount |-> amount]

\* A transfer request built by a client from the Config it read, signed by
\* the source, and not yet executed (result = "pending") or executed; `before`
\* is the result it had when it is submitted a second time.
NoRequest == [from |-> "none", to |-> "none", amount |-> 0, result |-> "none",
              before |-> "none"]

Results == {"Ok"} \cup ConditionalError \cup AnchorError \cup SystemError

TypeOK ==
    /\ cfg \in Config \cup {NoConfig}
    /\ lamports \in [Accounts -> Nat]
    /\ last \in {NoCall} \cup
          [ix : Instructions, result : Results,
           origin : {"none", "config", "authority", "from", "to"}, amount : U64]
    /\ inflight \in {NoRequest} \cup
          [from : Users, to : Pubkey, amount : U64,
           result : {"pending"} \cup Results, before : {"none"} \cup Results]

(* ------------------------ external primitives ------------------------- *)

\* Owner of an account: wallets are owned by the System Program, the
\* all-zero address is the System Program (owned by the native loader), the
\* config PDA is owned by this program once created.
IsSystemOwned(k) == k \in Users

\* system_program::transfer succeeds only when the source holds at least n.
TransferOk(bal, src, n) == bal[src] >= n

\* system_program::transfer debits the source, then credits the destination.
Transfer(bal, src, dst, n) ==
    LET debited == [bal EXCEPT ![src] = @ - n]
    IN  [debited EXCEPT ![dst] = @ + n]

(* ------------------------- account validation ------------------------- *)

Valid == [err |-> "Ok", origin |-> "none"]

Reject(err, origin) == [err |-> err, origin |-> origin]

\* Mutant of Initialize: the account is created whether or not the address is
\* already in use (init_if_needed without a guard).
Initialize_IfNeeded(authority, is_signer) ==
    IF ~is_signer THEN Reject("AccountNotSigner", "authority")
    ELSE IF ~TransferOk(lamports, authority, RentLamports)
         THEN Reject("ResultWithNegativeLamports", "none")
    ELSE Valid

\* #[derive(Accounts)] struct Initialize: authority must sign; `init` creates
\* the PDA through the System Program, which refuses an address in use and a
\* payer that cannot fund the rent.
Initialize(authority, is_signer) ==
    IF ~is_signer THEN Reject("AccountNotSigner", "authority")
    ELSE IF cfg.exists THEN Reject("AccountAlreadyInUse", "none")
    ELSE IF ~TransferOk(lamports, authority, RentLamports)
         THEN Reject("ResultWithNegativeLamports", "none")
    ELSE Valid

\* Mutant of SendIfOverThreshold: the `from` account lacks address = config.from.
SendIfOverThreshold_NoFromAddress(from, is_signer, to) ==
    IF ~cfg.exists THEN Reject("AccountNotInitialized", "config")
    ELSE IF ~is_signer THEN Reject("AccountNotSigner", "from")
    ELSE IF ~IsSystemOwned(to) THEN Reject("AccountNotSystemOwned", "to")
    ELSE IF to # cfg.to THEN Reject("ConstraintAddress", "to")
    ELSE Valid

\* Mutant of SendIfOverThreshold: the `to` account lacks address = config.to.
SendIfOverThreshold_NoToAddress(from, is_signer, to) ==
    IF ~cfg.exists THEN Reject("AccountNotInitialized", "config")
    ELSE IF ~is_signer THEN Reject("AccountNotSigner", "from")
    ELSE IF ~IsSystemOwned(to) THEN Reject("AccountNotSystemOwned", "to")
    ELSE IF from # cfg.from THEN Reject("ConstraintAddress", "from")
    ELSE Valid

\* #[derive(Accounts)] struct SendIfOverThreshold: the accounts are loaded in
\* field order (config, from: Signer, to: SystemAccount), then the
\* constraints run in field order (address = config.from, address = config.to).
\* Neither address constraint names a custom error.
SendIfOverThreshold(from, is_signer, to) ==
    IF ~cfg.exists THEN Reject("AccountNotInitialized", "config")
    ELSE IF ~is_signer THEN Reject("AccountNotSigner", "from")
    ELSE IF ~IsSystemOwned(to) THEN Reject("AccountNotSystemOwned", "to")
    ELSE IF from # cfg.from THEN Reject("ConstraintAddress", "from")
    ELSE IF to # cfg.to THEN Reject("ConstraintAddress", "to")
    ELSE Valid

\* #[derive(Accounts)] struct Update: authority must sign, config must exist,
\* has_one = authority (no custom error).
Update(authority, is_signer) ==
    IF ~is_signer THEN Reject("AccountNotSigner", "authority")
    ELSE IF ~cfg.exists THEN Reject("AccountNotInitialized", "config")
    ELSE IF cfg.authority # authority THEN Reject("ConstraintHasOne", "config")
    ELSE Valid

(* ----------------------------- handlers ------------------------------- *)

\* A failed instruction: the runtime discards every write.
Fail(ix, err, origin, amount) ==
    /\ last' = Outcome(ix, err, origin, amount)
    /\ UNCHANGED <<cfg, lamports>>

\* Mutant of initialize: the two address arguments are stored crosswise.
initialize_SwapFromTo(authority, is_signer, from, to, threshold_lamports) ==
    LET v == Initialize(authority, is_signer)
    IN  IF v.err # "Ok" THEN Fail("initialize", v.err, v.origin, 0)
        ELSE /\ cfg' = [exists |-> TRUE, authority |-> authority, from |-> to,
                        to |-> from, threshold_lamports |-> threshold_lamports,
                        bump |-> CanonicalBump]
             /\ lamports' = Transfer(lamports, authority, ConfigPda, RentLamports)
             /\ last' = Outcome("initialize", "Ok", "none", 0)

initialize(authority, is_signer, from, to, threshold_lamports) ==
    LET v == Initialize(authority, is_signer)
    IN  IF v.err # "Ok" THEN Fail("initialize", v.err, v.origin, 0)
        ELSE /\ cfg' = [exists |-> TRUE, authority |-> authority, from |-> from,
                        to |-> to, threshold_lamports |-> threshold_lamports,
                        bump |-> CanonicalBump]
             /\ lamports' = Transfer(lamports, authority, ConfigPda, RentLamports)
             /\ last' = Outcome("initialize", "Ok", "none", 0)

\* Mutant of send_if_over_threshold: the require! on the threshold is missing.
send_if_over_threshold_NoThreshold(from, is_signer, to, amount) ==
    LET v == SendIfOverThreshold(from, is_signer, to)
    IN  IF v.err # "Ok" THEN Fail("send_if_over_threshold", v.err, v.origin, amount)
        ELSE IF ~TransferOk(lamports, from, amount)
             THEN Fail("send_if_over_threshold", "ResultWithNegativeLamports",
                       "none", amount)
        ELSE /\ lamports' = Transfer(lamports, from, to, amount)
             /\ last' = Outcome("send_if_over_threshold", "Ok", "none", amount)
             /\ UNCHANGED cfg

\* Mutant of send_if_over_threshold: the comparison is strict (lamports >
\* threshold).
send_if_over_threshold_Strict(from, is_signer, to, amount) ==
    LET v == SendIfOverThreshold(from, is_signer, to)
    IN  IF v.err # "Ok" THEN Fail("send_if_over_threshold", v.err, v.origin, amount)
        ELSE IF ~(amount > cfg.threshold_lamports)
             THEN Fail("send_if_over_threshold", "BelowThreshold", "none", amount)
        ELSE IF ~TransferOk(lamports, from, amount)
             THEN Fail("send_if_over_threshold", "ResultWithNegativeLamports",
                       "none", amount)
        ELSE /\ lamports' = Transfer(lamports, from, to, amount)
             /\ last' = Outcome("send_if_over_threshold", "Ok", "none", amount)
             /\ UNCHANGED cfg

\* Mutant of send_if_over_threshold: the result of system_program::transfer is
\* dropped instead of propagated with `?`.
send_if_over_threshold_Masked(from, is_signer, to, amount) ==
    LET v == SendIfOverThreshold(from, is_signer, to)
    IN  IF v.err # "Ok" THEN Fail("send_if_over_threshold", v.err, v.origin, amount)
        ELSE IF ~(amount >= cfg.threshold_lamports)
             THEN Fail("send_if_over_threshold", "BelowThreshold", "none", amount)
        ELSE IF ~TransferOk(lamports, from, amount)
             THEN Fail("send_if_over_threshold", "Ok", "none", amount)
        ELSE /\ lamports' = Transfer(lamports, from, to, amount)
             /\ last' = Outcome("send_if_over_threshold", "Ok", "none", amount)
             /\ UNCHANGED cfg

send_if_over_threshold(from, is_signer, to, amount) ==
    LET v == SendIfOverThreshold(from, is_signer, to)
    IN  IF v.err # "Ok" THEN Fail("send_if_over_threshold", v.err, v.origin, amount)
        ELSE IF ~(amount >= cfg.threshold_lamports)
             THEN Fail("send_if_over_threshold", "BelowThreshold", "none", amount)
        ELSE IF ~TransferOk(lamports, from, amount)
             THEN Fail("send_if_over_threshold", "ResultWithNegativeLamports",
                       "none", amount)
        ELSE /\ lamports' = Transfer(lamports, from, to, amount)
             /\ last' = Outcome("send_if_over_threshold", "Ok", "none", amount)
             /\ UNCHANGED cfg

\* Mutant of update_threshold: the Config account is declared init_if_needed,
\* so a signed call that finds no Config creates one owned by the caller.
update_threshold_InitIfNeeded(authority, is_signer, new_threshold_lamports) ==
    IF ~is_signer
    THEN Fail("update_threshold", "AccountNotSigner", "authority", 0)
    ELSE IF ~cfg.exists
    THEN IF ~TransferOk(lamports, authority, RentLamports)
         THEN Fail("update_threshold", "ResultWithNegativeLamports", "none", 0)
         ELSE /\ cfg' = [exists |-> TRUE, authority |-> authority,
                         from |-> DefaultPubkey, to |-> DefaultPubkey,
                         threshold_lamports |-> new_threshold_lamports,
                         bump |-> CanonicalBump]
              /\ lamports' = Transfer(lamports, authority, ConfigPda, RentLamports)
              /\ last' = Outcome("update_threshold", "Ok", "none", 0)
    ELSE IF cfg.authority # authority
    THEN Fail("update_threshold", "ConstraintHasOne", "config", 0)
    ELSE /\ cfg' = [cfg EXCEPT !.threshold_lamports = new_threshold_lamports]
         /\ last' = Outcome("update_threshold", "Ok", "none", 0)
         /\ UNCHANGED lamports

\* Mutant of update_threshold: a line copied from update_addresses also
\* overwrites the destination.
update_threshold_CopySlip(authority, is_signer, new_threshold_lamports) ==
    LET v == Update(authority, is_signer)
    IN  IF v.err # "Ok"
        THEN Fail("update_threshold", v.err, v.origin, 0)
        ELSE IF cfg.authority # authority
             THEN Fail("update_threshold", "Unauthorized", "none", 0)
        ELSE /\ cfg' = [cfg EXCEPT !.threshold_lamports = new_threshold_lamports,
                                   !.to = cfg.from]
             /\ last' = Outcome("update_threshold", "Ok", "none", 0)
             /\ UNCHANGED lamports

\* Mutant of update_threshold: a zero threshold is refused.
update_threshold_RejectZero(authority, is_signer, new_threshold_lamports) ==
    LET v == Update(authority, is_signer)
    IN  IF v.err # "Ok"
        THEN Fail("update_threshold", v.err, v.origin, 0)
        ELSE IF cfg.authority # authority
             THEN Fail("update_threshold", "Unauthorized", "none", 0)
        ELSE IF new_threshold_lamports = 0
             THEN Fail("update_threshold", "BelowThreshold", "none", 0)
        ELSE /\ cfg' = [cfg EXCEPT !.threshold_lamports = new_threshold_lamports]
             /\ last' = Outcome("update_threshold", "Ok", "none", 0)
             /\ UNCHANGED lamports

\* Mutant of update_threshold: the new value is never stored.
update_threshold_NoWrite(authority, is_signer, new_threshold_lamports) ==
    LET v == Update(authority, is_signer)
    IN  IF v.err # "Ok"
        THEN Fail("update_threshold", v.err, v.origin, 0)
        ELSE IF cfg.authority # authority
             THEN Fail("update_threshold", "Unauthorized", "none", 0)
        ELSE /\ last' = Outcome("update_threshold", "Ok", "none", 0)
             /\ UNCHANGED <<cfg, lamports>>

update_threshold(authority, is_signer, new_threshold_lamports) ==
    LET v == Update(authority, is_signer)
    IN  IF v.err # "Ok"
        THEN Fail("update_threshold", v.err, v.origin, 0)
        ELSE IF cfg.authority # authority
             THEN Fail("update_threshold", "Unauthorized", "none", 0)
        ELSE /\ cfg' = [cfg EXCEPT !.threshold_lamports = new_threshold_lamports]
             /\ last' = Outcome("update_threshold", "Ok", "none", 0)
             /\ UNCHANGED lamports

\* Mutant of update_addresses: the Config account is declared with
\* close = authority, so a successful call deletes it and refunds the rent.
update_addresses_Close(authority, is_signer, new_from, new_to) ==
    LET v == Update(authority, is_signer)
    IN  IF v.err # "Ok" THEN Fail("update_addresses", v.err, v.origin, 0)
        ELSE IF cfg.authority # authority
             THEN Fail("update_addresses", "Unauthorized", "none", 0)
        ELSE /\ cfg' = NoConfig
             /\ lamports' = Transfer(lamports, ConfigPda, authority, RentLamports)
             /\ last' = Outcome("update_addresses", "Ok", "none", 0)

\* Mutant of update_addresses: the new source is also stored as authority.
update_addresses_AuthoritySlip(authority, is_signer, new_from, new_to) ==
    LET v == Update(authority, is_signer)
    IN  IF v.err # "Ok" THEN Fail("update_addresses", v.err, v.origin, 0)
        ELSE IF cfg.authority # authority
             THEN Fail("update_addresses", "Unauthorized", "none", 0)
        ELSE /\ cfg' = [cfg EXCEPT !.authority = new_from, !.from = new_from,
                                   !.to = new_to]
             /\ last' = Outcome("update_addresses", "Ok", "none", 0)
             /\ UNCHANGED lamports

\* Mutant of update_addresses: equal source and destination are refused.
update_addresses_RejectSame(authority, is_signer, new_from, new_to) ==
    LET v == Update(authority, is_signer)
    IN  IF v.err # "Ok" THEN Fail("update_addresses", v.err, v.origin, 0)
        ELSE IF cfg.authority # authority
             THEN Fail("update_addresses", "Unauthorized", "none", 0)
        ELSE IF new_from = new_to
             THEN Fail("update_addresses", "Unauthorized", "none", 0)
        ELSE /\ cfg' = [cfg EXCEPT !.from = new_from, !.to = new_to]
             /\ last' = Outcome("update_addresses", "Ok", "none", 0)
             /\ UNCHANGED lamports

\* Mutant of update_addresses: only the destination is stored.
update_addresses_OnlyTo(authority, is_signer, new_from, new_to) ==
    LET v == Update(authority, is_signer)
    IN  IF v.err # "Ok" THEN Fail("update_addresses", v.err, v.origin, 0)
        ELSE IF cfg.authority # authority
             THEN Fail("update_addresses", "Unauthorized", "none", 0)
        ELSE /\ cfg' = [cfg EXCEPT !.to = new_to]
             /\ last' = Outcome("update_addresses", "Ok", "none", 0)
             /\ UNCHANGED lamports

update_addresses(authority, is_signer, new_from, new_to) ==
    LET v == Update(authority, is_signer)
    IN  IF v.err # "Ok" THEN Fail("update_addresses", v.err, v.origin, 0)
        ELSE IF cfg.authority # authority
             THEN Fail("update_addresses", "Unauthorized", "none", 0)
        ELSE /\ cfg' = [cfg EXCEPT !.from = new_from, !.to = new_to]
             /\ last' = Outcome("update_addresses", "Ok", "none", 0)
             /\ UNCHANGED lamports

(* --------------------------- specification ---------------------------- *)

\* A key can be marked as signer only by somebody who holds it.
CanSign(k, is_signer) == is_signer => k \in Users

\* Before the first instruction wallet A holds just the rent of the Config
\* account, wallet B holds MaxLamports and every other account is empty.
Funding ==
    [k \in Accounts |->
        IF k = "A" THEN RentLamports ELSE IF k = "B" THEN MaxLamports ELSE 0]

Init ==
    /\ cfg = NoConfig
    /\ lamports = Funding
    /\ last = NoCall
    /\ inflight = NoRequest

\* An instruction that account validation rejects never reads its arguments,
\* so one representative value stands for all of them.
KeyArgs(v) == IF v.err = "Ok" THEN Pubkey ELSE {DefaultPubkey}

U64Args(v) == IF v.err = "Ok" THEN U64 ELSE {0}

DoInitialize ==
    /\ \E a \in Pubkey, s \in BOOLEAN :
          /\ CanSign(a, s)
          /\ \E f \in KeyArgs(Initialize(a, s)), t \in KeyArgs(Initialize(a, s)),
                n \in U64Args(Initialize(a, s)) :
                initialize(a, s, f, t, n)
    /\ UNCHANGED inflight

DoSend ==
    /\ \E f \in Pubkey, s \in BOOLEAN, t \in Pubkey, n \in U64 :
          CanSign(f, s) /\ send_if_over_threshold(f, s, t, n)
    /\ UNCHANGED inflight

DoUpdateThreshold ==
    /\ \E a \in Pubkey, s \in BOOLEAN :
          /\ CanSign(a, s)
          /\ \E n \in U64Args(Update(a, s)) : update_threshold(a, s, n)
    /\ UNCHANGED inflight

DoUpdateAddresses ==
    /\ \E a \in Pubkey, s \in BOOLEAN :
          /\ CanSign(a, s)
          /\ \E f \in KeyArgs(Update(a, s)), t \in KeyArgs(Update(a, s)) :
                update_addresses(a, s, f, t)
    /\ UNCHANGED inflight

Next == DoInitialize \/ DoSend \/ DoUpdateThreshold \/ DoUpdateAddresses

Spec == Init /\ [][Next]_vars

\* The same program with one transfer request in flight: a client reads the
\* Config, builds and signs a request for the stored source and destination,
\* and the request is executed later, after any number of other instructions.
BuildSend ==
    /\ cfg.exists
    /\ cfg.from \in Users
    /\ \E n \in U64 :
          inflight' = [from |-> cfg.from, to |-> cfg.to, amount |-> n,
                       result |-> "pending", before |-> "none"]
    /\ UNCHANGED <<cfg, lamports, last>>

ExecInFlight ==
    /\ inflight.result = "pending"
    /\ send_if_over_threshold(inflight.from, TRUE, inflight.to, inflight.amount)
    /\ inflight' = [inflight EXCEPT !.result = last'.result]

\* The state after initialize(from = B, to = C, threshold_lamports = 1) signed
\* by A.
InitActive ==
    /\ cfg = [exists |-> TRUE, authority |-> "A", from |-> "B", to |-> "C",
              threshold_lamports |-> 1, bump |-> CanonicalBump]
    /\ lamports = Transfer(Funding, "A", ConfigPda, RentLamports)
    /\ last = Outcome("initialize", "Ok", "none", 0)
    /\ inflight = NoRequest

\* The scenario keeps to the three steps the staleness question is about:
\* building a request, re-pointing the addresses, executing the request.
NextInFlight == BuildSend \/ ExecInFlight \/ DoUpdateAddresses

SpecInFlight == InitActive /\ [][NextInFlight]_vars

\* The same program with a client that submits a transfer request, sees its
\* result, and submits the same request again after the authority has changed
\* the threshold.
RetryInFlight ==
    /\ inflight.result \in Results
    /\ send_if_over_threshold(inflight.from, TRUE, inflight.to, inflight.amount)
    /\ inflight' = [inflight EXCEPT !.result = last'.result,
                                    !.before = inflight.result]

NextRetry == BuildSend \/ ExecInFlight \/ RetryInFlight \/ DoUpdateThreshold

SpecRetry == InitActive /\ [][NextRetry]_vars

(* ------------------------------ claims -------------------------------- *)

\* The step executes send_if_over_threshold on an existing Config; its
\* request asked for last'.amount.
SendStep == last'.ix = "send_if_over_threshold" /\ cfg.exists

\* The step executes the request the stored source signs for the stored
\* destination.
SourceSendStep ==
    /\ SendStep
    /\ cfg.from \in Users
    /\ send_if_over_threshold(cfg.from, TRUE, cfg.to, last'.amount)

\* C1, as stated: on an initialized Config every send_if_over_threshold with
\* amount < threshold fails with BelowThreshold and leaves Config and every
\* balance as they were.
C1_Original ==
    [][(SendStep /\ last'.amount < cfg.threshold_lamports)
          => (/\ last'.result = "BelowThreshold"
              /\ cfg' = cfg
              /\ lamports' = lamports)]_vars

\* C1, amended: on an initialized Config every send_if_over_threshold with
\* amount < threshold fails and leaves Config and every balance as they were;
\* the failure is BelowThreshold when the request passes account validation
\* (signed by the stored source, recipient the stored destination and a
\* system-owned account), and Anchor's validation error otherwise.
C1_BelowThreshold ==
    [][(SendStep /\ last'.amount < cfg.threshold_lamports)
          => (/\ cfg' = cfg
              /\ lamports' = lamports
              /\ last'.result \in {"BelowThreshold"} \cup AnchorError
              /\ (SourceSendStep /\ IsSystemOwned(cfg.to))
                    => last'.result = "BelowThreshold")]_vars

\* C1 witness: the stored source asked the stored destination for less than
\* the threshold and was refused with BelowThreshold.
C1_Witness ==
    /\ cfg.exists
    /\ last.ix = "send_if_over_threshold"
    /\ last.result = "BelowThreshold"
    /\ last.amount < cfg.threshold_lamports

\* C2, as stated: when the stored source signs, the recipient is the stored
\* destination, amount >= threshold and the source holds at least amount, the
\* call succeeds, the source balance falls by amount, the destination balance
\* rises by amount and Config is unchanged.
C2_Original ==
    [][(/\ SourceSendStep
        /\ last'.amount >= cfg.threshold_lamports
        /\ lamports[cfg.from] >= last'.amount)
          => (/\ last'.result = "Ok"
              /\ lamports'[cfg.from] = lamports[cfg.from] - last'.amount
              /\ lamports'[cfg.to] = lamports[cfg.to] + last'.amount
              /\ cfg' = cfg)]_vars

\* C2, amended: under the same conditions and a destination that is a
\* system-owned account, the call succeeds and Config is unchanged; when source
\* and destination differ the source balance falls by exactly amount, the
\* destination balance rises by exactly amount and no other balance changes;
\* when they are the same account no balance changes.
C2_TransferExact ==
    [][(/\ SourceSendStep
        /\ IsSystemOwned(cfg.to)
        /\ last'.amount >= cfg.threshold_lamports
        /\ lamports[cfg.from] >= last'.amount)
          => (/\ last'.result = "Ok"
              /\ cfg' = cfg
              /\ IF cfg.from # cfg.to
                 THEN lamports' = [lamports EXCEPT
                                      ![cfg.from] = @ - last'.amount,
                                      ![cfg.to] = @ + last'.amount]
                 ELSE lamports' = lamports)]_vars

\* C2 witness: a transfer of exactly the threshold, a positive amount, between
\* two different accounts succeeded.
C2_Witness ==
    /\ cfg.exists
    /\ last.ix = "send_if_over_threshold"
    /\ last.result = "Ok"
    /\ last.amount = cfg.threshold_lamports
    /\ last.amount >= 1
    /\ cfg.from # cfg.to

\* C3, as stated: a signer other than the stored source fails with
\* Unauthorized whatever the amount, and no value moves.
C3_Original ==
    [][SendStep =>
          \A f \in Users \ {cfg.from}, t \in Pubkey :
             send_if_over_threshold(f, TRUE, t, last'.amount)
                => (/\ last'.result = "Unauthorized"
                    /\ lamports' = lamports)]_vars

\* C3, amended: a signer other than the stored source fails whatever the
\* amount, Config is unchanged and no value moves; the error is Anchor's
\* ConstraintAddress on the `from` account (AccountNotSystemOwned when the
\* presented recipient is not a system account), not the program's
\* Unauthorized.
C3_WrongSourceRejected ==
    [][SendStep =>
          \A f \in Users \ {cfg.from}, t \in Pubkey :
             send_if_over_threshold(f, TRUE, t, last'.amount)
                => (/\ IF IsSystemOwned(t)
                       THEN /\ last'.result = "ConstraintAddress"
                            /\ last'.origin = "from"
                       ELSE last'.result = "AccountNotSystemOwned"
                    /\ cfg' = cfg
                    /\ lamports' = lamports)]_vars

\* C3 witness: a signer that is not the stored source was rejected on the
\* `from` account with an amount below the threshold.
C3_Witness ==
    /\ cfg.exists
    /\ last.ix = "send_if_over_threshold"
    /\ last.result = "ConstraintAddress"
    /\ last.origin = "from"
    /\ last.amount < cfg.threshold_lamports

\* The step executes update_threshold or update_addresses on an existing
\* Config.
UpdateStep == last'.ix \in {"update_threshold", "update_addresses"} /\ cfg.exists

\* C4: a signer other than the stored authority that calls update_threshold or
\* update_addresses fails with Unauthorized, and Config is unchanged.
C4_Original ==
    [][UpdateStep =>
          \A a \in Users \ {cfg.authority} :
             (\/ update_threshold(a, TRUE, 0)
              \/ update_addresses(a, TRUE, DefaultPubkey, DefaultPubkey))
                => (/\ last'.result = "Unauthorized"
                    /\ cfg' = cfg)]_vars

\* C5: whenever send_if_over_threshold moves value, it moves it from the
\* source stored in Config to the destination stored in Config at the moment
\* the instruction executes; a request built for addresses that
\* update_addresses has replaced since is rejected by account validation and
\* moves nothing.
C5_CurrentAddressesGovern ==
    [][/\ (SendStep /\ lamports' # lamports)
             => lamports' = [lamports EXCEPT ![cfg.from] = @ - last'.amount,
                                             ![cfg.to] = @ + last'.amount]
       /\ ExecInFlight
             => /\ lamports' # lamports
                   => inflight.from = cfg.from /\ inflight.to = cfg.to
                /\ (inflight.from # cfg.from \/ inflight.to # cfg.to)
                   => /\ inflight'.result \in AnchorError
                      /\ lamports' = lamports
                      /\ cfg' = cfg]_vars

\* C5 witness: a request built for the stored addresses, asking for at least
\* the threshold and covered by its signer's balance, was executed after
\* update_addresses had replaced an address, and was rejected.
C5_Witness ==
    /\ last.ix = "send_if_over_threshold"
    /\ inflight.result = last.result
    /\ inflight.result \in AnchorError
    /\ inflight.from # cfg.from \/ inflight.to # cfg.to
    /\ inflight.amount >= cfg.threshold_lamports
    /\ lamports[inflight.from] >= inflight.amount

\* C6, as stated: a request signed by the stored source for at least the
\* threshold whose recipient is not the stored destination fails with
\* Unauthorized and moves no value.
C6_Original ==
    [][(SendStep /\ cfg.from \in Users
                 /\ last'.amount >= cfg.threshold_lamports) =>
          \A t \in Pubkey \ {cfg.to} :
             send_if_over_threshold(cfg.from, TRUE, t, last'.amount)
                => (/\ last'.result = "Unauthorized"
                    /\ lamports' = lamports)]_vars

\* C6, amended: such a request fails, Config is unchanged and no value moves;
\* the error is Anchor's ConstraintAddress on the `to` account
\* (AccountNotSystemOwned when the presented recipient is not a system
\* account), not the program's Unauthorized.
C6_WrongRecipientRejected ==
    [][(SendStep /\ cfg.from \in Users
                 /\ last'.amount >= cfg.threshold_lamports) =>
          \A t \in Pubkey \ {cfg.to} :
             send_if_over_threshold(cfg.from, TRUE, t, last'.amount)
                => (/\ IF IsSystemOwned(t)
                       THEN /\ last'.result = "ConstraintAddress"
                            /\ last'.origin = "to"
                       ELSE last'.result = "AccountNotSystemOwned"
                    /\ cfg' = cfg
                    /\ lamports' = lamports)]_vars

\* C6 witness: the stored source, holding enough, asked for at least the
\* threshold to be sent to an account that is not the stored destination and
\* was rejected on the `to` account.
C6_Witness ==
    /\ cfg.exists
    /\ last.ix = "send_if_over_threshold"
    /\ last.result = "ConstraintAddress"
    /\ last.origin = "to"
    /\ last.amount >= cfg.threshold_lamports
    /\ cfg.from \in Users
    /\ lamports[cfg.from] >= last.amount
    /\ last.amount >= 1

\* C7: a signed initialize on a namespace that already holds a Config fails
\* with the allocator's "already in use" error (the spec's AlreadyExists) and
\* leaves every field of the record, and every balance, as it was, whoever
\* signs and whatever the arguments.
C7_SecondInitializeRejected ==
    [][(last'.ix = "initialize" /\ cfg.exists) =>
          \A a \in Users, f \in Pubkey, t \in Pubkey, n \in U64 :
             initialize(a, TRUE, f, t, n)
                => (/\ last'.result = "AccountAlreadyInUse"
                    /\ cfg' = cfg
                    /\ lamports' = lamports)]_vars

\* C7 witness: an initialize was refused because the Config already existed.
C7_Witness ==
    /\ cfg.exists
    /\ last.ix = "initialize"
    /\ last.result = "AccountAlreadyInUse"

\* C8: when the System Program refuses the transfer (the source holds less
\* than amount), send_if_over_threshold fails with the System Program's own
\* error (the spec's TransferFailed), and a failed send_if_over_threshold of any
\* kind leaves the source balance, the destination balance and Config as they
\* were.
C8_TransferFailureAtomic ==
    [][/\ (/\ SourceSendStep
           /\ IsSystemOwned(cfg.to)
           /\ last'.amount >= cfg.threshold_lamports
           /\ lamports[cfg.from] < last'.amount)
             => last'.result = "ResultWithNegativeLamports"
       /\ (SendStep /\ last'.result # "Ok")
             => (lamports' = lamports /\ cfg' = cfg)]_vars

\* C8 witness: the stored source asked for at least the threshold but more
\* than it holds, and the System Program's error came back.
C8_Witness ==
    /\ cfg.exists
    /\ last.ix = "send_if_over_threshold"
    /\ last.result = "ResultWithNegativeLamports"
    /\ last.amount >= cfg.threshold_lamports
    /\ lamports[cfg.from] < last.amount

\* C9: once the Config exists, none of authority, source and destination is
\* the all-zero identity.
C9_Original ==
    cfg.exists => /\ cfg.authority # DefaultPubkey
                  /\ cfg.from # DefaultPubkey
                  /\ cfg.to # DefaultPubkey

\* The step executes a transfer request right after a successful
\* update_addresses.
SendAfterUpdateStep ==
    /\ last.ix = "update_addresses"
    /\ last.result = "Ok"
    /\ ExecInFlight

\* C10, as stated: right after a successful update_addresses(D, E), a request
\* signed by an old source B fails with Unauthorized, and a request signed by D
\* for E with amount >= threshold and enough balance succeeds.
C10_Original ==
    [][SendAfterUpdateStep =>
          /\ inflight.from # cfg.from => last'.result = "Unauthorized"
          /\ (/\ inflight.from = cfg.from
              /\ inflight.to = cfg.to
              /\ inflight.amount >= cfg.threshold_lamports
              /\ lamports[cfg.from] >= inflight.amount)
                => last'.result = "Ok"]_vars

\* C10, amended: right after a successful update_addresses(D, E), a request
\* signed by an old source B other than D fails with Anchor's
\* ConstraintAddress on the `from` account (AccountNotSystemOwned when its
\* recipient is not a system account) and moves nothing, and a request signed
\* by D for E with amount >= threshold and enough balance succeeds when E is a
\* system-owned account.
C10_AfterUpdateAddresses ==
    [][SendAfterUpdateStep =>
          /\ inflight.from # cfg.from
                => /\ IF IsSystemOwned(inflight.to)
                      THEN /\ last'.result = "ConstraintAddress"
                           /\ last'.origin = "from"
                      ELSE last'.result = "AccountNotSystemOwned"
                   /\ lamports' = lamports
          /\ (/\ inflight.from = cfg.from
              /\ inflight.to = cfg.to
              /\ IsSystemOwned(cfg.to)
              /\ inflight.amount >= cfg.threshold_lamports
              /\ lamports[cfg.from] >= inflight.amount)
                => /\ last'.result = "Ok"
                   /\ lamports' = [lamports EXCEPT
                                      ![cfg.from] = @ - inflight.amount,
                                      ![cfg.to] = @ + inflight.amount]]_vars

\* C10 witness: the request of an old source, executed after update_addresses
\* named another source, was rejected on the `from` account.
C10_Witness ==
    /\ last.ix = "send_if_over_threshold"
    /\ last.origin = "from"
    /\ inflight.result = "ConstraintAddress"
    /\ inflight.from # cfg.from
    /\ inflight.from \in Users

\* The step is a successful update_threshold.
UpdateThresholdOkStep ==
    /\ cfg.exists
    /\ last'.ix = "update_threshold"
    /\ last'.result = "Ok"

\* C11, as stated: the threshold a transfer is compared with is the one the
\* latest successful update_threshold stored; a request refused with
\* BelowThreshold succeeds when it is submitted again after the threshold has
\* been lowered to its amount or less, and a request that succeeded fails when
\* it is submitted again after the threshold has been raised above its amount.
C11_Original ==
    [][/\ UpdateThresholdOkStep
             => \A n \in U64 : update_threshold(cfg.authority, TRUE, n)
                                  => cfg'.threshold_lamports = n
       /\ RetryInFlight
             => /\ (/\ inflight.result = "BelowThreshold"
                    /\ inflight.amount >= cfg.threshold_lamports)
                      => last'.result = "Ok"
                /\ (/\ inflight.result = "Ok"
                    /\ inflight.amount < cfg.threshold_lamports)
                      => last'.result = "BelowThreshold"]_vars

\* C11, amended: as stated, except that the request submitted again after the
\* threshold has been lowered succeeds only when the source still holds at
\* least its amount; otherwise it passes the threshold comparison and fails
\* with the System Program's error.
C11_LatestThresholdGoverns ==
    [][/\ UpdateThresholdOkStep
             => \A n \in U64 : update_threshold(cfg.authority, TRUE, n)
                                  => cfg'.threshold_lamports = n
       /\ RetryInFlight
             => /\ (/\ inflight.result = "BelowThreshold"
                    /\ inflight.amount >= cfg.threshold_lamports)
                      => IF lamports[inflight.from] >= inflight.amount
                         THEN last'.result = "Ok"
                         ELSE last'.result = "ResultWithNegativeLamports"
                /\ (/\ inflight.result = "Ok"
                    /\ inflight.amount < cfg.threshold_lamports)
                      => /\ last'.result = "BelowThreshold"
                         /\ lamports' = lamports]_vars

\* C11 witness: a request refused with BelowThreshold was submitted again
\* after the threshold had been lowered to its amount or less, and succeeded.
C11_Witness ==
    /\ last.ix = "send_if_over_threshold"
    /\ last.result = "Ok"
    /\ inflight.before = "BelowThreshold"
    /\ inflight.result = "Ok"
    /\ inflight.amount >= cfg.threshold_lamports

\* C12: the Config account comes into existence only in a step that is a
\* successful initialize, and once it exists it exists in every later state;
\* the one address derived from the seed "config" holds the rent of exactly
\* one account, paid once.
C12_ActiveForever ==
    [][/\ cfg.exists => cfg'.exists
       /\ (~cfg.exists /\ cfg'.exists)
             => /\ last'.ix = "initialize"
                /\ last'.result = "Ok"
       /\ lamports'[ConfigPda] = IF cfg'.exists THEN RentLamports ELSE 0]_vars

\* C12 witness: the Config account is still there after an instruction other
\* than initialize succeeded on it.
C12_Witness ==
    /\ cfg.exists
    /\ last.ix = "update_addresses"
    /\ last.result = "Ok"
    /\ lamports[ConfigPda] = RentLamports

\* The step is a successful initialize.
InitializeOkStep ==
    /\ ~cfg.exists
    /\ last'.ix = "initialize"
    /\ last'.result = "Ok"

\* C13: a successful initialize(from, to, threshold_lamports) signed by a
\* stores authority = a and the three arguments; the only lamports that move
\* are the rent, from the signer to the Config account, so nothing moves
\* between `from` and `to`.
C13_InitializeStoresArguments ==
    [][InitializeOkStep
          => \A a \in Users, f \in Pubkey, t \in Pubkey, n \in U64 :
                initialize(a, TRUE, f, t, n)
                   => /\ cfg'.exists
                      /\ cfg'.authority = a
                      /\ cfg'.from = f
                      /\ cfg'.to = t
                      /\ cfg'.threshold_lamports = n
                      /\ \A k \in Accounts \ {a, ConfigPda} :
                            lamports'[k] = lamports[k]
                      /\ \A k \in {f, t} : lamports'[k] <= lamports[k]]_vars

\* C13 witness: initialize has just succeeded with three different keys as
\* authority, source and destination, and the source still holds its funds.
C13_Witness ==
    /\ last.ix = "initialize"
    /\ last.result = "Ok"
    /\ cfg.exists
    /\ cfg.from # cfg.to
    /\ cfg.authority \notin {cfg.from, cfg.to}
    /\ cfg.threshold_lamports > 0
    /\ lamports[cfg.from] = Funding[cfg.from]
    /\ lamports[cfg.from] > 0

\* The step executes one of the three instructions that load the Config
\* account, and there is none.
NoConfigStep ==
    /\ ~cfg.exists
    /\ last'.ix \in {"send_if_over_threshold", "update_threshold",
                     "update_addresses"}

\* C14: while no Config account exists, send_if_over_threshold,
\* update_threshold and update_addresses fail, create no Config and move no
\* lamports; a caller who signs is told that the Config account is not
\* initialized (a call that lacks the signature of an update is refused for
\* that, before the Config account is looked at).
C14_NoConfigRejected ==
    [][NoConfigStep
          => /\ cfg' = cfg
             /\ lamports' = lamports
             /\ last'.result \in {"AccountNotInitialized", "AccountNotSigner"}
             /\ last'.ix = "send_if_over_threshold"
                   => last'.result = "AccountNotInitialized"
             /\ \A a \in Users :
                   (\/ send_if_over_threshold(a, TRUE, DefaultPubkey, last'.amount)
                    \/ update_threshold(a, TRUE, 0)
                    \/ update_addresses(a, TRUE, DefaultPubkey, DefaultPubkey))
                      => /\ last'.result = "AccountNotInitialized"
                         /\ last'.origin = "config"]_vars

\* C14 witness: an update signed by a funded wallet was refused because there
\* is no Config account, and nothing was created or moved.
C14_Witness ==
    /\ ~cfg.exists
    /\ last.ix \in {"update_threshold", "update_addresses"}
    /\ last.result = "AccountNotInitialized"
    /\ lamports = Funding

\* The step is a successful update_addresses.
UpdateAddressesOkStep ==
    /\ cfg.exists
    /\ last'.ix = "update_addresses"
    /\ last'.result = "Ok"

\* C15: a successful update_addresses(new_from, new_to) stores both addresses
\* in the one step it takes and leaves authority, threshold and bump as they
\* were; the stored pair changes in no other step, so every state shows a pair
\* that one call wrote as a whole, and a transfer request built for an earlier
\* pair is served only if both of its addresses are the stored ones.
C15_AddressesReplacedTogether ==
    [][/\ UpdateAddressesOkStep
             => \A f \in Pubkey, t \in Pubkey :
                   update_addresses(cfg.authority, TRUE, f, t)
                      => cfg' = [cfg EXCEPT !.from = f, !.to = t]
       /\ (cfg.exists /\ (cfg'.from # cfg.from \/ cfg'.to # cfg.to))
             => UpdateAddressesOkStep
       /\ (ExecInFlight /\ last'.result = "Ok")
             => inflight.from = cfg.from /\ inflight.to = cfg.to]_vars

\* C15 witness: update_addresses has just succeeded, and both stored addresses
\* differ from the pair a client read earlier; authority, threshold and bump
\* are those of initialize.
C15_Witness ==
    /\ last.ix = "update_addresses"
    /\ last.result = "Ok"
    /\ inflight.result = "pending"
    /\ inflight.from # cfg.from
    /\ inflight.to # cfg.to
    /\ cfg.authority = "A"
    /\ cfg.threshold_lamports = 1
    /\ cfg.bump = CanonicalBump

\* C16: update_threshold signed by the authority succeeds for every u64
\* argument, zero included; and while the stored threshold is zero no
\* send_if_over_threshold fails with BelowThreshold, whatever the amount: a
\* request of the stored source for the stored destination succeeds or fails
\* in the System Program's transfer.
C16_ZeroThresholdLegal ==
    [][/\ (cfg.exists /\ last'.ix = "update_threshold")
             => \A n \in U64 :
                   update_threshold(cfg.authority, TRUE, n)
                      => last'.result = "Ok"
       /\ (SendStep /\ cfg.threshold_lamports = 0)
             => last'.result # "BelowThreshold"
       /\ (SourceSendStep /\ cfg.threshold_lamports = 0 /\ cfg.to \in Users)
             => last'.result = IF lamports[cfg.from] >= last'.amount
                               THEN "Ok"
                               ELSE "ResultWithNegativeLamports"]_vars

\* C16 witness: the authority has set the threshold of initialize (1) to zero,
\* and the source's request for zero lamports has succeeded.
C16_Witness ==
    /\ cfg.threshold_lamports = 0
    /\ last.ix = "send_if_over_threshold"
    /\ last.result = "Ok"
    /\ last.amount = 0
    /\ inflight.result = "Ok"
    /\ inflight.amount = 0

\* C17: update_addresses signed by the authority with the same key as source
\* and destination succeeds and stores it twice; a following transfer signed
\* by that key for at least the threshold and covered by its balance
\* succeeds, and every balance is the same after it as before.
C17_SelfTransferInert ==
    [][/\ (cfg.exists /\ last'.ix = "update_addresses")
             => \A x \in Pubkey :
                   update_addresses(cfg.authority, TRUE, x, x)
                      => /\ last'.result = "Ok"
                         /\ cfg'.from = x
                         /\ cfg'.to = x
       /\ (/\ SourceSendStep
           /\ cfg.from = cfg.to
           /\ last'.amount >= cfg.threshold_lamports
           /\ lamports[cfg.from] >= last'.amount)
             => /\ last'.result = "Ok"
                /\ lamports' = lamports
                /\ cfg' = cfg]_vars

\* C17 witness: after initialize with different source and destination,
\* update_addresses has stored one key as both, and that key's transfer of a
\* positive amount has succeeded.
C17_Witness ==
    /\ cfg.from = cfg.to
    /\ last.ix = "send_if_over_threshold"
    /\ last.result = "Ok"
    /\ last.amount >= cfg.threshold_lamports
    /\ last.amount > 0
    /\ inflight.from = cfg.from
    /\ inflight.to = cfg.to
    /\ inflight.result = "Ok"

\* C18: the authority stored by initialize is the key that signed it and paid
\* the rent, and no later step changes it; a step that changes threshold,
\* source or destination of an existing Config is a successful update_threshold
\* or update_addresses, and no call of a key other than the authority, signed
\* or not, can be that step.
C18_AuthorityFixed ==
    [][/\ InitializeOkStep
             => /\ cfg'.authority \in Users
                /\ lamports'[cfg'.authority]
                      = lamports[cfg'.authority] - RentLamports
       /\ cfg.exists
             => /\ cfg'.exists
                /\ cfg'.authority = cfg.authority
                /\ cfg' # cfg
                      => /\ last'.ix \in {"update_threshold", "update_addresses"}
                         /\ last'.result = "Ok"
                         /\ \A a \in Pubkey \ {cfg.authority}, s \in BOOLEAN :
                               /\ \A n \in U64 : ~update_threshold(a, s, n)
                               /\ \A f \in Pubkey, t \in Pubkey :
                                     ~update_addresses(a, s, f, t)]_vars

\* C18 witness: an update has just succeeded on a Config whose authority is
\* neither its source nor its destination and is still the wallet that paid
\* the rent at initialize.
C18_Witness ==
    /\ cfg.exists
    /\ last.ix \in {"update_threshold", "update_addresses"}
    /\ last.result = "Ok"
    /\ cfg.authority \notin {cfg.from, cfg.to}
    /\ lamports[cfg.authority] = Funding[cfg.authority] - RentLamports
    /\ lamports[ConfigPda] = RentLamports

\* C19: a successful update_threshold(new_threshold_lamports) stores exactly
\* its argument and leaves authority, source, destination, bump and every
\* balance as they were; update_threshold and update_addresses change no
\* balance whether they succeed or fail; so once the Config exists, a step
\* that changes any balance is a successful send_if_over_threshold (before it
\* exists the only such step is the initialize that pays its rent).
C19_UpdatesMoveNothing ==
    [][/\ UpdateThresholdOkStep
             => /\ \E n \in U64 : update_threshold(cfg.authority, TRUE, n)
                /\ \A n \in U64 :
                      update_threshold(cfg.authority, TRUE, n)
                         => cfg' = [cfg EXCEPT !.threshold_lamports = n]
                /\ lamports' = lamports
       /\ last'.ix \in {"update_threshold", "update_addresses"}
             => lamports' = lamports
       /\ lamports' # lamports
             => IF cfg.exists
                THEN /\ last'.ix = "send_if_over_threshold"
                     /\ last'.result = "Ok"
                ELSE /\ last'.ix = "initialize"
                     /\ last'.result = "Ok"]_vars

\* C19 witness: update_threshold has just succeeded on a Config with two
\* different addresses whose source holds lamports, and the Config account
\* holds its rent.
C19_Witness ==
    /\ last.ix = "update_threshold"
    /\ last.result = "Ok"
    /\ cfg.threshold_lamports > 0
    /\ cfg.from # cfg.to
    /\ cfg.from \in Users
    /\ lamports[cfg.from] > 0
    /\ lamports[ConfigPda] = RentLamports

====
